---- MODULE Spec2Model ----
(***************************************************************************)
(* Online ad auctions using Thompson sampling                              *)
(* (src/Online_ad_auctions_using_Thompson_sampling.ipynb).                 *)
(*                                                                         *)
(* The notebook is modelled as the state machine "run all cells": the      *)
(* auction data cells, the simulation driver that calls TS() R times, the  *)
(* loop of TS() over T time periods, and the computation of the averages.  *)
(*                                                                         *)
(* Numbers.  Bids are integers in units of 0.1 Euro (0.7 is 7); click-     *)
(* through rates, true and sampled, are integers per mille (0.025 is 25,   *)
(* 1.0 is 1000); an expected value bid*ctr is the product of the two.      *)
(* A mean is kept as the pair [sum, n] (sum / n; n = 0 is numpy's nan).    *)
(* Python's None is the string "None".                                     *)
(***************************************************************************)
EXTENDS Integers, Sequences, FiniteSets, TLC

\* ------------------------------------------------------------ bounds
\* largest number of time periods T of a run
MaxT == 2
\* largest number of replications R of a run
MaxR == 2
\* largest number of posterior samples Len(ads) * T * R a run draws
MaxDraws == 6

VARIABLES
    ads, bid, views, clicks, ctr_true,  \* the auction data (cells 2)
    T, R,                               \* nb of time periods, nb of replications
    ev_true, best,                      \* true expected values and the best ad
    pc, err,                            \* position in the notebook; the exception raised
    rng,                                \* np.random's generator: the draws made from it so far
    r,                                  \* replication index of the driver loop
    a, b,                               \* TS(): parameters of the priors
    ctr_prior, reward, regret,          \* TS(): what the run records
    t, arg, click,                      \* TS(): time period, selected ad, observed click
    hist,                               \* history: <<arg, click>> of every update of this TS()
    first_prior,                        \* history: <<a, b>> as the first TS() started with
    all_reward, all_regret, all_ctr_prior, all_a, all_b,
    avg_reward, avg_regret, avg_ctr_prior, avg_a, avg_b

vars == <<ads, bid, views, clicks, ctr_true, T, R, ev_true, best, pc, err, rng, r,
          a, b, ctr_prior, reward, regret, t, arg, click, hist, first_prior,
          all_reward, all_regret, all_ctr_prior, all_a, all_b,
          avg_reward, avg_regret, avg_ctr_prior, avg_a, avg_b>>

registry == <<ads, bid, views, clicks, ctr_true, T, R>>
truth    == <<ev_true, best>>
locals   == <<a, b, ctr_prior, reward, regret, t, arg, click, hist, first_prior>>
alls     == <<all_reward, all_regret, all_ctr_prior, all_a, all_b>>
avgs     == <<avg_reward, avg_regret, avg_ctr_prior, avg_a, avg_b>>

None == "None"

\* ------------------------------------------------------------ helpers
Range(s) == {s[i] : i \in DOMAIN s}

Arms == Range(ads)

RECURSIVE SumSeq(_)
SumSeq(s) == IF s = <<>> THEN 0 ELSE Head(s) + SumSeq(Tail(s))

\* as Mean, leaving out the first element of the list
Mean_skipFirst(s) == [sum |-> IF s = <<>> THEN 0 ELSE SumSeq(Tail(s)), n |-> Len(s)]

\* np.mean of a list: its sum and its length (length 0: nan)
Mean(s) == [sum |-> SumSeq(s), n |-> Len(s)]

\* ------------------------------------------------------------ auction data
AdNames == <<"crypto_magic", "green_energy", "infini_waves">>

\* the advertisers of the notebook: bid, views, clicks, true CTR
crypto_magic == [bid |-> 7, views |-> 300, clicks |-> 9, ctr_true |-> 25]
green_energy == [bid |-> 5, views |-> 140, clicks |-> 3, ctr_true |-> 12]
infini_waves == [bid |-> 4, views |-> 60,  clicks |-> 2, ctr_true |-> 55]

\* other advertisers a caller may supply
never_clicked  == [bid |-> 5, views |-> 2, clicks |-> 0, ctr_true |-> 0]
always_clicked == [bid |-> 5, views |-> 2, clicks |-> 2, ctr_true |-> 1000]
over_clicked   == [bid |-> 7, views |-> 1, clicks |-> 2, ctr_true |-> 500]
never_viewed   == [bid |-> 7, views |-> 0, clicks |-> 0, ctr_true |-> 500]
dead_ad        == [bid |-> 5, views |-> 3, clicks |-> 1, ctr_true |-> 0]

ArmKinds == {crypto_magic, green_energy, infini_waves, never_clicked,
             always_clicked, over_clicked, never_viewed, dead_ad}

\* the arm tables of the model: no ad, one ad, two ads, and the notebook's three
ArmTables == {<<>>} \cup {<<k>> : k \in ArmKinds}
                    \cup {<<k1, k2>> : k1 \in ArmKinds, k2 \in ArmKinds}
                    \cup {<<crypto_magic, green_energy, infini_waves>>}

\* values np.random.beta may return, per mille
SampleVals == {0, 30, 50}

\* position of an ad name in AdNames
NameIndex(ad) == CHOOSE i \in DOMAIN AdNames : AdNames[i] = ad

Init ==
    /\ \E tab \in ArmTables :
          /\ ads      = SubSeq(AdNames, 1, Len(tab))
          /\ bid      = [ad \in Range(SubSeq(AdNames, 1, Len(tab))) |-> tab[NameIndex(ad)].bid]
          /\ views    = [ad \in Range(SubSeq(AdNames, 1, Len(tab))) |-> tab[NameIndex(ad)].views]
          /\ clicks   = [ad \in Range(SubSeq(AdNames, 1, Len(tab))) |-> tab[NameIndex(ad)].clicks]
          /\ ctr_true = [ad \in Range(SubSeq(AdNames, 1, Len(tab))) |-> tab[NameIndex(ad)].ctr_true]
    /\ T \in -1..MaxT
    /\ R \in -1..MaxR
    /\ Len(ads) * T * R <= MaxDraws
    /\ ev_true = <<>> /\ best = None
    /\ pc = "data" /\ err = "" /\ rng = 0
    /\ r = 0
    /\ a = <<>> /\ b = <<>> /\ ctr_prior = <<>> /\ reward = <<>> /\ regret = <<>>
    /\ t = 0 /\ arg = None /\ click = 0 /\ hist = <<>> /\ first_prior = <<>>
    /\ all_reward = <<>> /\ all_regret = <<>> /\ all_ctr_prior = <<>>
    /\ all_a = <<>> /\ all_b = <<>>
    /\ avg_reward = <<>> /\ avg_regret = <<>> /\ avg_ctr_prior = <<>>
    /\ avg_a = <<>> /\ avg_b = <<>>

\* ------------------------------------------------------------ cells 2: auction data
\* the loop "arg = None; val = 0.0; for ad in ads: if score[ad] > val: ..." from
\* position i on, with the current arg and val
RECURSIVE ArgMaxLoop(_, _, _, _)
ArgMaxLoop(score, i, argc, valc) ==
    IF i > Len(ads) THEN argc
    ELSE IF score[ads[i]] > valc
         THEN ArgMaxLoop(score, i + 1, ads[i], score[ads[i]])
         ELSE ArgMaxLoop(score, i + 1, argc, valc)

\* ev_true = {ad: bid[ad]*ctr_true[ad]}
EvTrue == [ad \in Arms |-> bid[ad] * ctr_true[ad]]

\* as BestAd, taking the first ad without comparing
BestAd_first(ev) == IF ads = <<>> THEN None ELSE ads[1]

\* determination of the ad maximizing the true EV
BestAd(ev) == ArgMaxLoop(ev, 1, None, 0)

\* ctr_hist = clicks[ad]/views[ad] divides by the views of every ad
AuctionDataRaises ==
    /\ pc = "data"
    /\ \E ad \in Arms : views[ad] = 0
    /\ pc' = "error" /\ err' = "ZeroDivisionError"
    /\ UNCHANGED <<rng, registry, truth, r, locals, alls, avgs>>

AuctionData ==
    /\ pc = "data"
    /\ \A ad \in Arms : views[ad] # 0
    /\ ev_true' = EvTrue
    /\ best' = BestAd(EvTrue)
    /\ pc' = "sim"
    /\ UNCHANGED <<rng, registry, err, r, locals, alls, avgs>>

\* ------------------------------------------------------------ cell 3: priors
\* as initialization, with a pseudo-count of 1 added to both parameters
initialization_plus1 ==
    << [ad \in Arms |-> clicks[ad] + 1],
       [ad \in Arms |-> views[ad] - clicks[ad] + 1] >>

\* as initialization, handing out the parameters the previous TS() returned
initialization_carried ==
    IF r = 0
    THEN << [ad \in Arms |-> clicks[ad]], [ad \in Arms |-> views[ad] - clicks[ad]] >>
    ELSE << all_a[r - 1], all_b[r - 1] >>

initialization ==
    << [ad \in Arms |-> clicks[ad]],
       [ad \in Arms |-> views[ad] - clicks[ad]] >>

\* ------------------------------------------------------------ cell 3: TS()
\* as SelectAd, reading the true CTRs in place of the sampled ones
SelectAd_truth(sample) == ArgMaxLoop([ad \in Arms |-> bid[ad] * ctr_true[ad]], 1, None, 0)

\* select action: the ad with the highest bid * sampled CTR
SelectAd(sample) == ArgMaxLoop([ad \in Arms |-> bid[ad] * sample[ad]], 1, None, 0)

\* np.random.binomial(1, p): the outcomes of probability > 0
Binomial1(p) == IF p = 0 THEN {0} ELSE IF p = 1000 THEN {1} ELSE {0, 1}

\* as Regret, with the two expected values exchanged
Regret_exchanged(bst, ar) == ev_true[ar] - ev_true[bst]

\* regret of the decision
Regret(bst, ar) == ev_true[bst] - ev_true[ar]

\* as UpdatePrior, with the two branches exchanged
UpdatePrior_swapped(aa, bb, ar, ck) ==
    IF ck = 1 THEN << aa, [bb EXCEPT ![ar] = @ + 1] >>
              ELSE << [aa EXCEPT ![ar] = @ + 1], bb >>

\* as UpdatePrior, leaving the posterior alone when the display is not clicked
UpdatePrior_clickOnly(aa, bb, ar, ck) ==
    IF ck = 1 THEN << [aa EXCEPT ![ar] = @ + 1], bb >> ELSE << aa, bb >>

\* as UpdatePrior, counting every display as a success and as a failure
UpdatePrior_both(aa, bb, ar, ck) ==
    << [aa EXCEPT ![ar] = @ + 1], [bb EXCEPT ![ar] = @ + 1] >>

\* update parameters of prior based on observation
UpdatePrior(aa, bb, ar, ck) ==
    IF ck = 1 THEN << [aa EXCEPT ![ar] = @ + 1], bb >>
              ELSE << aa, [bb EXCEPT ![ar] = @ + 1] >>

\* np.random.beta(a, b) raises ValueError unless a > 0 and b > 0
BetaRaises(ad) == a[ad] <= 0 \/ b[ad] <= 0

\* the ads sampled before the first one whose np.random.beta raises
SampledBeforeRaise ==
    {ads[i] : i \in {j \in DOMAIN ads : \A k \in 1..j : ~BetaRaises(ads[k])}}

\* for r in range(R): ... = TS(), the call: a,b = initialization() and empty records
TSEnter ==
    /\ pc = "sim" /\ r < R
    /\ a' = initialization[1]
    /\ b' = initialization[2]
    /\ ctr_prior' = [tt \in 0..(T - 1) |-> <<>>]
    /\ reward' = <<>> /\ regret' = <<>>
    /\ t' = 0 /\ arg' = None /\ click' = 0 /\ hist' = <<>>
    /\ first_prior' = IF r = 0 THEN initialization ELSE first_prior
    /\ pc' = "round"
    /\ UNCHANGED <<rng, registry, truth, err, r, alls, avgs>>

\* use prior to estimate ctr: one np.random.beta per ad
RoundSample ==
    /\ pc = "round" /\ t < T
    /\ \A ad \in Arms : ~BetaRaises(ad)
    /\ \E sample \in [Arms -> SampleVals] :
          ctr_prior' = [ctr_prior EXCEPT ![t] = sample]
    /\ rng' = rng + Len(ads)
    /\ pc' = "select"
    /\ UNCHANGED <<registry, truth, err, r, a, b, reward, regret, t, arg, click,
                   hist, first_prior, alls, avgs>>

RoundSampleRaises ==
    /\ pc = "round" /\ t < T
    /\ \E ad \in Arms : BetaRaises(ad)
    /\ \E sample \in [SampledBeforeRaise -> SampleVals] :
          ctr_prior' = [ctr_prior EXCEPT ![t] = sample]
    /\ rng' = rng + Cardinality(SampledBeforeRaise)
    /\ pc' = "error" /\ err' = "ValueError"
    /\ UNCHANGED <<registry, truth, r, a, b, reward, regret, t, arg, click,
                   hist, first_prior, alls, avgs>>

RoundSelect ==
    /\ pc = "select"
    /\ arg' = SelectAd(ctr_prior[t])
    /\ pc' = "click"
    /\ UNCHANGED <<rng, registry, truth, err, r, a, b, ctr_prior, reward, regret, t,
                   click, hist, first_prior, alls, avgs>>

\* simulate click-through based on selected ad and calculate the reward
RoundClick ==
    /\ pc = "click" /\ arg \in Arms
    /\ \E ck \in Binomial1(ctr_true[arg]) :
          /\ click' = ck
          /\ reward' = Append(reward, bid[arg] * ck)
    /\ rng' = rng + 1
    /\ pc' = "regret"
    /\ UNCHANGED <<registry, truth, err, r, a, b, ctr_prior, regret, t, arg,
                   hist, first_prior, alls, avgs>>

\* ctr_true[None]
RoundClickRaises ==
    /\ pc = "click" /\ arg \notin Arms
    /\ pc' = "error" /\ err' = "KeyError"
    /\ UNCHANGED <<rng, registry, truth, r, locals, alls, avgs>>

RoundRegret ==
    /\ pc = "regret" /\ best \in Arms
    /\ regret' = Append(regret, Regret(best, arg))
    /\ pc' = "update"
    /\ UNCHANGED <<rng, registry, truth, err, r, a, b, ctr_prior, reward, t, arg,
                   click, hist, first_prior, alls, avgs>>

\* ev_true[None]
RoundRegretRaises ==
    /\ pc = "regret" /\ best \notin Arms
    /\ pc' = "error" /\ err' = "KeyError"
    /\ UNCHANGED <<rng, registry, truth, r, locals, alls, avgs>>

\* as RoundUpdate, updating the first ad of ads instead of the selected one
RoundUpdate_first ==
    /\ pc = "update"
    /\ a' = UpdatePrior(a, b, ads[1], click)[1]
    /\ b' = UpdatePrior(a, b, ads[1], click)[2]
    /\ hist' = Append(hist, <<arg, click>>)
    /\ t' = t + 1
    /\ pc' = "round"
    /\ UNCHANGED <<rng, registry, truth, err, r, ctr_prior, reward, regret, arg,
                   click, first_prior, alls, avgs>>

\* as RoundUpdate, with a the dict clicks itself (initialization returning
\* clicks and not a new dict): a click is written into clicks
RoundUpdate_aliased ==
    /\ pc = "update"
    /\ a' = UpdatePrior(a, b, arg, click)[1]
    /\ b' = UpdatePrior(a, b, arg, click)[2]
    /\ clicks' = [clicks EXCEPT ![arg] = @ + click]
    /\ hist' = Append(hist, <<arg, click>>)
    /\ t' = t + 1
    /\ pc' = "round"
    /\ UNCHANGED <<rng, ads, bid, views, ctr_true, T, R, truth, err, r, ctr_prior,
                   reward, regret, arg, click, first_prior, alls, avgs>>

RoundUpdate ==
    /\ pc = "update"
    /\ a' = UpdatePrior(a, b, arg, click)[1]
    /\ b' = UpdatePrior(a, b, arg, click)[2]
    /\ hist' = Append(hist, <<arg, click>>)
    /\ t' = t + 1
    /\ pc' = "round"
    /\ UNCHANGED <<rng, registry, truth, err, r, ctr_prior, reward, regret, arg,
                   click, first_prior, alls, avgs>>

\* return reward,regret,ctr_prior,a,b into all_...[r]
TSReturn ==
    /\ pc = "round" /\ t >= T
    /\ all_reward'    = (r :> reward)    @@ all_reward
    /\ all_regret'    = (r :> regret)    @@ all_regret
    /\ all_ctr_prior' = (r :> ctr_prior) @@ all_ctr_prior
    /\ all_a'         = (r :> a)         @@ all_a
    /\ all_b'         = (r :> b)         @@ all_b
    /\ r' = r + 1
    /\ pc' = "sim"
    /\ UNCHANGED <<rng, registry, truth, err, locals, avgs>>

\* ------------------------------------------------------------ cell 4: averages
SimDone ==
    /\ pc = "sim" /\ r >= R
    /\ pc' = "avg"
    /\ UNCHANGED <<rng, registry, truth, err, r, locals, alls, avgs>>

\* for r in range(R): the replications in the order the averages take them
RangeR == [i \in 1..R |-> i - 1]

\* the averages, the replications taken in the order ord
AvgReward(ord) ==
    [tt \in 1..T |-> Mean([i \in 1..Len(ord) |-> all_reward[ord[i]][tt]])]
AvgRegret(ord) ==
    [tt \in 1..T |-> Mean([i \in 1..Len(ord) |-> all_regret[ord[i]][tt]])]
AvgCtrPrior(ord) ==
    [ad \in Arms |->
        [tt \in 1..T |-> Mean([i \in 1..Len(ord) |-> all_ctr_prior[ord[i]][tt - 1][ad]])]]
AvgA(ord) == [ad \in Arms |-> Mean([i \in 1..Len(ord) |-> all_a[ord[i]][ad]])]
AvgB(ord) == [ad \in Arms |-> Mean([i \in 1..Len(ord) |-> all_b[ord[i]][ad]])]

Averages ==
    /\ pc = "avg"
    /\ avg_reward' = AvgReward(RangeR)
    /\ avg_regret' = AvgRegret(RangeR)
    /\ avg_ctr_prior' = AvgCtrPrior(RangeR)
    /\ avg_a' = AvgA(RangeR)
    /\ avg_b' = AvgB(RangeR)
    /\ pc' = "done"
    /\ UNCHANGED <<rng, registry, truth, err, r, locals, alls>>

Next ==
    \/ AuctionData \/ AuctionDataRaises
    \/ TSEnter \/ RoundSample \/ RoundSampleRaises \/ RoundSelect
    \/ RoundClick \/ RoundClickRaises \/ RoundRegret \/ RoundRegretRaises
    \/ RoundUpdate \/ TSReturn
    \/ SimDone \/ Averages

Spec == Init /\ [][Next]_vars

\* ------------------------------------------------------------ types
TypeOK ==
    /\ pc \in {"data", "sim", "round", "select", "click", "regret", "update",
               "avg", "done", "error"}
    /\ err \in {"", "ZeroDivisionError", "ValueError", "KeyError"}
    /\ (pc = "error") <=> (err # "")
    /\ arg \in Arms \cup {None}
    /\ click \in {0, 1}
    /\ r \in 0..MaxR /\ t \in 0..MaxT

\* ------------------------------------------------------------ properties
\* TS() is running: its priors a, b exist
InTS == pc \in {"round", "select", "click", "regret", "update"}

\* TS() has just called initialization(): before its first time period
Initialized == pc = "round" /\ t = 0

\* the ad is the notebook's crypto_magic (views 300, clicks 9)
RefCrypto ==
    /\ "crypto_magic" \in Arms
    /\ views["crypto_magic"] = 300
    /\ clicks["crypto_magic"] = 9

\* C1, as claimed: initialization gives every ad alpha = clicks + 1 and
\* beta = views - clicks + 1; crypto_magic (300 views, 9 clicks) gets 10, 292.
C1_PlusOnePrior ==
    Initialized =>
        /\ \A ad \in Arms : a[ad] = clicks[ad] + 1 /\ b[ad] = views[ad] - clicks[ad] + 1
        /\ RefCrypto => a["crypto_magic"] = 10 /\ b["crypto_magic"] = 292

\* C1, amended: initialization gives every ad alpha = clicks and
\* beta = views - clicks (no pseudo-count); crypto_magic gets 9, 291.
C1_CountsPrior ==
    Initialized =>
        /\ \A ad \in Arms : a[ad] = clicks[ad] /\ b[ad] = views[ad] - clicks[ad]
        /\ RefCrypto => a["crypto_magic"] = 9 /\ b["crypto_magic"] = 291

C1_Witness ==
    /\ Initialized /\ RefCrypto
    /\ a["crypto_magic"] = 9 /\ b["crypto_magic"] = 291

\* C2: with 0 <= clicks <= views for every ad (and valid T and R), alpha and
\* beta of every ad are strictly positive whenever a posterior exists (after
\* initialization and after every round of every replication).
C2_StrictlyPositive ==
    (InTS /\ T >= 1 /\ R >= 1
          /\ \A ad \in Arms : 0 <= clicks[ad] /\ clicks[ad] <= views[ad])
        => \A ad \in Arms : a[ad] > 0 /\ b[ad] > 0

\* C3: a round mutates the posterior exactly once, in its update step and only
\* for the selected ad: a click adds 1 to its alpha and leaves its beta, no
\* click adds 1 to its beta and leaves its alpha; the other ads keep both, and
\* no other step of the round changes (so none decreases) any alpha or beta.
C3_Step ==
    /\ pc = "update" =>
          /\ arg \in Arms
          /\ DOMAIN a' = Arms /\ DOMAIN b' = Arms
          /\ click = 1 => a'[arg] = a[arg] + 1 /\ b'[arg] = b[arg]
          /\ click # 1 => b'[arg] = b[arg] + 1 /\ a'[arg] = a[arg]
          /\ \A ad \in Arms \ {arg} : a'[ad] = a[ad] /\ b'[ad] = b[ad]
    /\ pc \in {"round", "select", "click", "regret"} => a' = a /\ b' = b

C3_UpdateFrame == [][C3_Step]_vars

C3_Witness ==
    /\ pc = "round" /\ t = 2 /\ Cardinality(Arms) >= 2
    /\ hist[1][2] = 1 /\ hist[2][2] = 0
    /\ a[hist[1][1]] > clicks[hist[1][1]]

\* bid * sampled CTR of an ad in the current time period
Product(ad) == bid[ad] * ctr_prior[t][ad]

\* C4: the selected ad maximizes bid * sample over all ads, and of the ads
\* that tie for the maximum it is the earliest in ads; bids 0.7, 0.5 with
\* samples 0.03, 0.05 select the second ad.
C4_EarliestArgMax ==
    (pc = "click" /\ ads # <<>>) =>
        /\ arg \in Arms
        /\ \A ad \in Arms : Product(arg) >= Product(ad)
        /\ \A i \in DOMAIN ads :
              Product(ads[i]) = Product(arg) => NameIndex(arg) <= i
        /\ (Len(ads) = 2 /\ bid = ("crypto_magic" :> 7) @@ ("green_energy" :> 5)
              /\ ctr_prior[t] = ("crypto_magic" :> 30) @@ ("green_energy" :> 50))
             => arg = "green_energy"

\* C5: with a non-empty ads, the selection of every round yields an ad of
\* ads, never None, whatever the samples (all products 0 included).
C5_OneArmChosen ==
    (pc = "click" /\ ads # <<>>) => arg \in Arms

\* C6: every regret recorded, in this TS() and in the ones returned, is >= 0,
\* and when one is recorded best is an ad whose true EV is the maximum.
C6_RegretNonNegative ==
    /\ \A i \in DOMAIN regret : regret[i] >= 0
    /\ \A rr \in DOMAIN all_regret :
          \A i \in DOMAIN all_regret[rr] : all_regret[rr][i] >= 0
    /\ regret # <<>> =>
          best \in Arms /\ \A ad \in Arms : ev_true[best] >= ev_true[ad]

C6_Witness ==
    /\ Len(regret) = 2 /\ regret[1] > 0 /\ regret[2] = 0

\* the updates of hist that selected ad; those of them with a click
Chosen(ad)  == Cardinality({i \in DOMAIN hist : hist[i][1] = ad})
Clicked(ad) == Cardinality({i \in DOMAIN hist : hist[i][1] = ad /\ hist[i][2] = 1})

\* C7: in a replication every ad has alpha = initial alpha + n and
\* beta = initial beta + (m - n), m the rounds that selected it so far and n
\* those of them with a click.
C7_RoundTrip ==
    InTS => \A ad \in Arms :
        /\ a[ad] = clicks[ad] + Clicked(ad)
        /\ b[ad] = (views[ad] - clicks[ad]) + (Chosen(ad) - Clicked(ad))

C7_Witness ==
    /\ InTS /\ Len(hist) = 2
    /\ hist[1][1] = hist[2][1] /\ hist[1][2] = 1 /\ hist[2][2] = 0

\* C8: every replication starts from the posterior the first one started
\* from, the one derived from the historical counts, whatever the earlier
\* replications returned.
C8_FreshPosterior ==
    Initialized =>
        /\ <<a, b>> = first_prior
        /\ first_prior = << [ad \in Arms |-> clicks[ad]],
                            [ad \in Arms |-> views[ad] - clicks[ad]] >>

C8_Witness ==
    /\ Initialized /\ r = 1
    /\ all_a[0] # a /\ all_b[0] = b

\* C9: an ad with more clicks than views makes the run (here one whose T and
\* R are valid) fail at setup: no replication starts, no round runs and no
\* posterior, so none with a negative beta, is created.
C9_RejectedAtSetup ==
    (T >= 1 /\ R >= 1 /\ \E ad \in Arms : clicks[ad] > views[ad]) =>
        /\ pc \in {"data", "sim", "error"}
        /\ r = 0 /\ a = <<>> /\ b = <<>>

\* C10: an empty ads, T <= 0 or R <= 0 is an error raised at setup: the run
\* does no simulation work and does not complete.
C10_ReportedAtSetup ==
    (ads = <<>> \/ T <= 0 \/ R <= 0) =>
        /\ pc \in {"data", "sim", "error"}
        /\ r = 0 /\ a = <<>> /\ ctr_prior = <<>>

\* C11: one time period (T = 1) with a single ad always selects that ad, and
\* the regret recorded for it is exactly 0, whatever sample the ad draws.
C11_SingleArm ==
    (Len(ads) = 1 /\ T = 1) =>
        /\ pc \in {"click", "regret", "update"} => arg = ads[1]
        /\ pc = "update" => regret = <<0>>
        /\ \A rr \in DOMAIN all_regret : all_regret[rr] = <<0>>

\* the data cells have run
SetUp == pc # "data" /\ err # "ZeroDivisionError"

\* the table, T and R are what a run is meant to get: T, R >= 1, at least one
\* ad, every ad with 0 < clicks < views
WellFormedRun ==
    /\ T >= 1 /\ R >= 1 /\ ads # <<>>
    /\ \A ad \in Arms : 0 < clicks[ad] /\ clicks[ad] < views[ad]

\* C12: once the data cells have run, and so before any replication, best is
\* the ad with the highest bid * true CTR, and it is the same in every round
\* of every replication (the value the data cells computed from the table).
C12_OracleBest ==
    (SetUp /\ WellFormedRun) =>
        /\ best \in Arms
        /\ \A ad \in Arms : bid[best] * ctr_true[best] >= bid[ad] * ctr_true[ad]
        /\ best = BestAd(EvTrue)

\* the orders in which the R replications can be taken
Orders == {ord \in [1..R -> 0..(R - 1)] : \A i, j \in 1..R : ord[i] = ord[j] => i = j}

\* C13: the averages the run ends with (reward, regret and sample per time
\* period, final alpha and beta per ad) are what every order of the R
\* replications gives.
C13_OrderInsensitive ==
    pc = "done" =>
        \A ord \in Orders :
            /\ avg_reward = AvgReward(ord)
            /\ avg_regret = AvgRegret(ord)
            /\ avg_ctr_prior = AvgCtrPrior(ord)
            /\ avg_a = AvgA(ord)
            /\ avg_b = AvgB(ord)

C13_Witness ==
    /\ pc = "done" /\ R = 2 /\ Cardinality(Orders) = 2
    /\ all_reward[0] # all_reward[1] /\ all_regret[0] # all_regret[1]
    /\ all_ctr_prior[0] # all_ctr_prior[1] /\ all_a[0] # all_a[1]

\* C14: in every time period the steps follow each other as sample, select,
\* simulate the click (reward), regret, update.  The samples of time period t
\* are drawn, one per ad, once the t earlier updates are made; the selection
\* is made from these samples; the reward and the update use the ad selected
\* and the click drawn in this time period.
C14_Step ==
    /\ pc = "round" => pc' \in {"select", "sim", "error"}
    /\ (pc = "round" /\ pc' = "select") =>
          /\ Len(hist) = t /\ Len(reward) = t /\ Len(regret) = t
          /\ \A ad \in Arms : a[ad] + b[ad] = views[ad] + Chosen(ad)
          /\ DOMAIN ctr_prior'[t] = Arms
          /\ \A tt \in 0..(T - 1) : tt # t => ctr_prior'[tt] = ctr_prior[tt]
          /\ \A tt \in (t + 1)..(T - 1) : ctr_prior[tt] = <<>>
    /\ pc = "select" =>
          /\ pc' = "click" /\ ctr_prior' = ctr_prior /\ t' = t
          /\ arg' \in Arms =>
                \A ad \in Arms : bid[arg'] * ctr_prior[t][arg'] >= bid[ad] * ctr_prior[t][ad]
    /\ pc = "click" =>
          /\ pc' \in {"regret", "error"} /\ arg' = arg /\ t' = t
          /\ pc' = "regret" => reward' = Append(reward, bid[arg] * click')
    /\ pc = "regret" =>
          /\ pc' \in {"update", "error"} /\ arg' = arg /\ click' = click /\ t' = t
          /\ pc' = "update" => Len(regret') = t + 1 /\ reward' = reward
    /\ pc = "update" =>
          /\ pc' = "round" /\ t' = t + 1 /\ arg' = arg /\ click' = click
          /\ hist' = Append(hist, <<arg, click>>)
          /\ a'[arg] = a[arg] + click /\ b'[arg] = b[arg] + (1 - click)

C14_RoundOrder == [][C14_Step]_vars

C14_Witness ==
    /\ pc = "select" /\ t = 1 /\ Len(hist) = 1 /\ Cardinality(Arms) = 2
    /\ hist[1] = <<ads[2], 1>> /\ a[ads[2]] = clicks[ads[2]] + 1

\* C15: a replication of a well-formed run goes through the time periods
\* 0, 1, ..., T-1 in this order, is never stopped by an exception before it
\* returns, and returns exactly T rewards, T regrets and T sample vectors
\* with one sample per ad.
C15_RunsToDone ==
    WellFormedRun =>
        /\ pc # "error"
        /\ InTS => t <= T /\ Len(hist) = t
        /\ \A rr \in DOMAIN all_reward :
              /\ Len(all_reward[rr]) = T /\ Len(all_regret[rr]) = T
              /\ DOMAIN all_ctr_prior[rr] = 0..(T - 1)
              /\ \A tt \in 0..(T - 1) : DOMAIN all_ctr_prior[rr][tt] = Arms

\* what the bids and one vector of samples alone determine: no ad when no
\* product is positive, else the earliest ad of the highest bid * sample
ChoiceFrom(sample) ==
    IF \A ad \in Arms : bid[ad] * sample[ad] <= 0
    THEN None
    ELSE CHOOSE x \in Arms :
            /\ \A ad \in Arms : bid[x] * sample[x] >= bid[ad] * sample[ad]
            /\ \A i \in DOMAIN ads :
                  bid[ads[i]] * sample[ads[i]] = bid[x] * sample[x] => NameIndex(x) <= i

\* C16: the ad selected in every time period and the posterior after every
\* update are determined by the bids, the historical counts, the samples
\* drawn and the clicks observed, with no reading of ctr_true, ev_true or
\* best: two runs that agree on these agree on the selections and posteriors.
C16_TruthNotRead ==
    /\ pc \in {"click", "regret", "update"} => arg = ChoiceFrom(ctr_prior[t])
    /\ InTS =>
          /\ \A i \in DOMAIN hist : hist[i][1] = ChoiceFrom(ctr_prior[i - 1])
          /\ \A ad \in Arms :
                /\ a[ad] = clicks[ad] + Clicked(ad)
                /\ a[ad] + b[ad] = views[ad] + Chosen(ad)

C16_Witness ==
    /\ pc = "round" /\ t = 2 /\ best \in Arms
    /\ hist[1][1] # best /\ hist[2][1] = best

\* the draws this TS() has made so far: one per ad and one for the click in
\* each time period
OwnDraws ==
    t * (Len(ads) + 1)
      + (IF pc \in {"select", "click"} THEN Len(ads)
         ELSE IF pc \in {"regret", "update"} THEN Len(ads) + 1 ELSE 0)

\* C17: replications share no mutable state: a replication has its own
\* posterior, the one it initialized and updated, and its own random draws,
\* so that where it stands in its random stream depends on its own progress
\* only, not on the replications run before it or between its rounds.
C17_NoSharedState ==
    InTS =>
        /\ \A ad \in Arms : a[ad] + b[ad] = views[ad] + Chosen(ad)
        /\ rng = OwnDraws

\* C18: no step changes ads, bid, views, clicks or ctr_true, and once the
\* data cells have computed ev_true no step changes it: the rounds of every
\* replication, the posterior update among them, and the averages leave the
\* arm registry as it was.
C18_Step ==
    /\ UNCHANGED <<ads, bid, views, clicks, ctr_true>>
    /\ pc # "data" => UNCHANGED ev_true

C18_RegistryFixed == [][C18_Step]_vars

C18_Witness ==
    /\ pc = "done" /\ T >= 1 /\ R >= 1
    /\ \E ad \in Arms : all_a[0][ad] = clicks[ad] + 1
    /\ ev_true = [ad \in Arms |-> bid[ad] * ctr_true[ad]]

\* C19: the reward recorded for a time period is the bid of the ad selected
\* in it times the click observed (0 or that bid), and the regret recorded is
\* the true EV of best minus the true EV of that ad.
C19_RewardRegret ==
    /\ InTS => \A i \in DOMAIN hist :
          /\ reward[i] = bid[hist[i][1]] * hist[i][2]
          /\ reward[i] \in {0, bid[hist[i][1]]}
          /\ regret[i] = bid[best] * ctr_true[best]
                           - bid[hist[i][1]] * ctr_true[hist[i][1]]
    /\ pc \in {"regret", "update"} =>
          /\ Len(reward) = t + 1
          /\ reward[t + 1] = bid[arg] * click /\ reward[t + 1] \in {0, bid[arg]}
    /\ pc = "update" =>
          /\ Len(regret) = t + 1
          /\ regret[t + 1] = bid[best] * ctr_true[best] - bid[arg] * ctr_true[arg]

C19_Witness ==
    /\ pc = "round" /\ Len(hist) = 2
    /\ reward[1] > 0 /\ reward[2] = 0 /\ regret[1] > 0 /\ regret[2] = 0

\* the sum over the ads, in table order, of f
SumOverAds(f) == SumSeq([i \in 1..Len(ads) |-> f[ads[i]]])

\* the sum over the ads of a + b as initialization() returns them
InitialMass == SumOverAds(initialization[1]) + SumOverAds(initialization[2])

\* C20: in a run with T >= 1 and R >= 1, after t completed time periods of a
\* replication the sum over the ads of a + b is its value at initialization
\* plus t; every replication returns a and b whose sum is the initial sum
\* plus T; and the sum over the ads of mean a plus mean b is the initial sum
\* plus T (the means are sums over the R replications: R times that value).
C20_MassGrowsByOne ==
    (T >= 1 /\ R >= 1) =>
        /\ InTS => SumOverAds(a) + SumOverAds(b) = InitialMass + t
        /\ \A rr \in DOMAIN all_a :
              SumOverAds(all_a[rr]) + SumOverAds(all_b[rr]) = InitialMass + T
        /\ pc = "done" =>
              /\ \A ad \in Arms : avg_a[ad].n = R /\ avg_b[ad].n = R
              /\ SumOverAds([ad \in Arms |-> avg_a[ad].sum])
                   + SumOverAds([ad \in Arms |-> avg_b[ad].sum])
                 = R * (InitialMass + T)

C20_Witness ==
    /\ pc = "done" /\ T = 2 /\ R >= 1 /\ Len(ads) = 2
    /\ SumOverAds(all_a[0]) > SumOverAds(initialization[1])
    /\ SumOverAds(all_b[0]) > SumOverAds(initialization[2])

====
